---- MODULE Spec2Model ----
(***************************************************************************)
(* Model of letterbox.py: the word trie, the side-aware candidate          *)
(* discovery (find_words), Puzzle.__init__, the Solutions store and the    *)
(* recursive search find_solutions, run by main() once per puzzle letter.  *)
(*                                                                         *)
(* A letter is a one-character string, a word is a sequence of letters, a  *)
(* side is a sequence of letters.  A trie node is named by the path from   *)
(* the root to it; the trie is a function from paths to TrieNode records   *)
(* whose children field holds the keys of the node's children dict.        *)
(* The recursion of find_solutions is run on an explicit call stack, one   *)
(* step per entry test or loop iteration.                                  *)
(***************************************************************************)
EXTENDS Integers, Sequences, FiniteSets, TLC

VARIABLES
    sides,               \* main: the puzzle's sides
    dictionary,          \* main: the dictionary read from the file
    all_letters,         \* Puzzle.all_letters
    all_possible_words,  \* Puzzle.all_possible_words: letter -> list of words
    solutions,           \* the Solutions store shared by all calls
    stack,               \* the call stack of find_solutions
    next_call,           \* main: index of the next top-level starting letter
    pc,                  \* "start", "main", "done" or "KeyError"
    last                 \* history: the step of find_solutions taken last

vars == <<sides, dictionary, all_letters, all_possible_words, solutions,
          stack, next_call, pc, last>>

(***************************************************************************)
(* Bounds and program constants                                            *)
(***************************************************************************)
\* At most this many of a scenario's optional words are put in the dictionary.
MaxExtraWords == 4

max_count == 10

max_length == 5

only_increase_coverage_off == FALSE

only_increase_coverage == TRUE

(***************************************************************************)
(* Helpers on words                                                        *)
(***************************************************************************)
\* set(word)
set(word) == {word[i] : i \in 1..Len(word)}

RECURSIVE Concat(_)
Concat(seqs) == IF seqs = <<>> THEN <<>> ELSE Head(seqs) \o Concat(Tail(seqs))

(***************************************************************************)
(* The trie                                                                *)
(***************************************************************************)
TrieNode(letter) == [letter |-> letter, children |-> {}, is_word |-> FALSE]

RootPath == <<>>

RECURSIVE insert_word(_, _, _)
insert_word(trie, node, word) ==
    IF word = <<>>
    THEN [trie EXCEPT ![node].is_word = TRUE]
    ELSE LET letter    == Head(word)
             remainder == Tail(word)
             child     == Append(node, letter)
         IN  IF letter \in trie[node].children
             THEN insert_word(trie, child, remainder)
             ELSE insert_word(
                    (child :> TrieNode(letter))
                      @@ [trie EXCEPT ![node].children = @ \cup {letter}],
                    child, remainder)

HasHyphen(word) == \E i \in 1..Len(word) : word[i] = "-"

RECURSIVE build_trie_from(_, _, _, _)
build_trie_from(trie, dict, available_letters, k) ==
    IF k > Len(dict) THEN trie
    ELSE LET word == dict[k] IN
         IF HasHyphen(word)
         THEN build_trie_from(trie, dict, available_letters, k + 1)
         ELSE IF ~(set(word) \subseteq available_letters)
         THEN build_trie_from(trie, dict, available_letters, k + 1)
         ELSE build_trie_from(insert_word(trie, RootPath, word), dict,
                              available_letters, k + 1)

build_trie(dict, available_letters) ==
    build_trie_from((RootPath :> TrieNode("")), dict, available_letters, 1)

(***************************************************************************)
(* Candidate discovery                                                     *)
(***************************************************************************)
SameSideNever(side_index, from_side) == FALSE

\* line 73: a letter of the side the previous letter came from is skipped
SameSide(side_index, from_side) == side_index = from_side

\* line 80: only words of three letters or more are recorded
LongEnough(word) == Len(word) >= 3

RECURSIVE find_words(_, _, _, _, _)
RECURSIVE find_words_loop(_, _, _, _, _, _, _)
\* the two nested for loops of find_words, at side side_index, letter k
find_words_loop(trie, sds, word, word_node, from_side, side_index, k) ==
    IF side_index > Len(sds) THEN <<>>
    ELSE IF SameSide(side_index, from_side) \/ k > Len(sds[side_index])
    THEN find_words_loop(trie, sds, word, word_node, from_side, side_index + 1, 1)
    ELSE LET letter == sds[side_index][k]
             found  == IF letter \notin trie[word_node].children
                       THEN <<>>
                       ELSE find_words(trie, sds, Append(word, letter),
                                       Append(word_node, letter), side_index)
         IN  found \o find_words_loop(trie, sds, word, word_node, from_side,
                                      side_index, k + 1)

find_words(trie, sds, word, word_node, from_side) ==
    LET results == find_words_loop(trie, sds, word, word_node, from_side, 1, 1)
    IN  IF trie[word_node].is_word /\ LongEnough(word)
        THEN Append(results, word)
        ELSE results

MaxLen(words) ==
    IF words = <<>> THEN 0
    ELSE CHOOSE n \in {Len(words[i]) : i \in 1..Len(words)} :
            \A i \in 1..Len(words) : Len(words[i]) <= n

RECURSIVE SortFrom(_, _)
SortFrom(words, n) ==
    IF n < 0 THEN <<>>
    ELSE SelectSeq(words, LAMBDA w : Len(w) = n) \o SortFrom(words, n - 1)

\* words.sort(key=len, reverse=True): a stable sort, longest first
SortLongestFirst(words) == SortFrom(words, MaxLen(words))

\* {letter for side in sides for letter in side}
PuzzleLetters(sds) == UNION {set(sds[i]) : i \in 1..Len(sds)}

\* the side whose loop iteration assigns all_possible_words[letter] last
SideOf(sds, letter) ==
    CHOOSE i \in 1..Len(sds) :
        /\ letter \in set(sds[i])
        /\ \A j \in (i + 1)..Len(sds) : letter \notin set(sds[j])

\* Puzzle.__init__, lines 121-132
PossibleWords(dict, sds) ==
    LET trie == build_trie(dict, PuzzleLetters(sds))
    IN  [letter \in PuzzleLetters(sds) \cap trie[RootPath].children |->
            SortLongestFirst(
                find_words(trie, sds, <<letter>>, <<letter>>, SideOf(sds, letter)))]

(***************************************************************************)
(* The inputs: puzzles and dictionaries                                    *)
(***************************************************************************)
SpecExample ==
    [sides |-> <<<<"c", "b">>, <<"a", "i">>, <<"t", "g">>>>,
     core  |-> <<>>,
     extra |-> <<<<"c", "a", "t">>,
                <<"t", "a", "b">>,
                <<"b", "i", "g">>,
                <<"b", "a", "i", "t">>,
                <<"g", "i", "f", "t">>,
                <<"a", "t">>,
                <<"t", "a", "-", "b">>,
                <<"a", "c", "t">>,
                <<"t", "a", "c", "t">>,
                <<"g", "i", "t">>,
                <<"t", "a", "b", "i">>,
                <<"a", "t", "t", "i", "c">>>>]

ThreeLetters ==
    [sides |-> <<<<"a">>, <<"b">>, <<"c">>>>,
     core  |-> <<>>,
     extra |-> <<<<"a", "b", "a">>,
                <<"a", "b", "a", "b">>,
                <<"b", "a", "b">>,
                <<"b", "c", "b">>,
                <<"b", "c", "b", "c">>,
                <<"c", "b", "c">>,
                <<"a", "b", "c">>,
                <<"b", "c", "a">>,
                <<"c", "a", "b">>,
                <<"a", "b", "b", "c">>,
                <<"a", "c", "a", "c", "a">>>>]

LongChain ==
    [sides |-> <<<<"a", "d", "g">>, <<"b", "e", "h">>, <<"c", "f">>>>,
     core  |-> <<<<"a", "b", "c">>,
                <<"c", "b", "d">>,
                <<"d", "c", "e">>,
                <<"e", "d", "f">>>>,
     extra |-> <<<<"f", "e", "g">>,
                <<"f", "e", "g", "h">>,
                <<"b", "a", "b">>,
                <<"g", "b", "g">>,
                <<"h", "a", "h">>,
                <<"g", "h", "a">>>>]

\* eleven words from a to b over {a, b, c}, then eleven from b that hold a d:
\* any of the first followed by any of the second covers the four letters
ManySolutions ==
    [sides |-> <<<<"a">>, <<"b">>, <<"c">>, <<"d">>>>,
     core  |-> <<<<"a", "c", "b">>,
                <<"a", "b", "c", "b">>,
                <<"a", "c", "a", "b">>,
                <<"a", "b", "a", "c", "b">>,
                <<"a", "b", "c", "a", "b">>,
                <<"a", "c", "a", "c", "b">>,
                <<"a", "c", "b", "a", "b">>,
                <<"a", "c", "b", "c", "b">>,
                <<"a", "b", "a", "b", "c", "b">>,
                <<"a", "b", "a", "c", "a", "b">>,
                <<"a", "b", "c", "a", "c", "b">>,
                <<"b", "d", "b">>,
                <<"b", "c", "d", "b">>,
                <<"b", "d", "c", "b">>,
                <<"b", "c", "d">>,
                <<"b", "c", "b", "d">>,
                <<"b", "d", "b", "d">>,
                <<"b", "d", "c", "d">>,
                <<"b", "c", "b", "d", "b">>,
                <<"b", "c", "d", "c", "b">>,
                <<"b", "d", "b", "c", "b">>,
                <<"b", "d", "b", "d", "b">>>>,
     extra |-> <<<<"c", "a", "c">>,
                <<"d", "b", "d">>>>]

Scenarios == <<SpecExample, ThreeLetters, LongChain, ManySolutions>>

RECURSIVE SelectWords(_, _, _)
\* the words of seq at the positions in S, in order
SelectWords(seq, S, k) ==
    IF k > Len(seq) THEN <<>>
    ELSE (IF k \in S THEN <<seq[k]>> ELSE <<>>) \o SelectWords(seq, S, k + 1)

Dictionaries(sc) ==
    {sc.core \o SelectWords(sc.extra, S, 1) :
        S \in {T \in SUBSET (1..Len(sc.extra)) : Cardinality(T) <= MaxExtraWords}}

(***************************************************************************)
(* Solution and the Solutions store                                        *)
(***************************************************************************)
Solution(words, coverage) == [words |-> words, coverage |-> coverage]

length(s) == Len(s.words)

coverage_length(s) == Cardinality(s.coverage)

solves_all_but_one(s, available_letters) ==
    Cardinality(s.coverage) + 1 >= Cardinality(available_letters)

solves(s, available_letters) == s.coverage = available_letters

NoSolutions ==
    [by_length              |-> [n \in {} |-> <<>>],
     words_so_far_by_length |-> [n \in {} |-> {}]]

insert_forgets_words(sols, solution) ==
    [sols EXCEPT !.by_length =
        IF length(solution) \in DOMAIN @
        THEN [@ EXCEPT ![length(solution)] = Append(@, solution)]
        ELSE (length(solution) :> <<solution>>) @@ @]

\* Solutions.insert: both dicts are filled by setdefault
insert(sols, solution) ==
    [by_length |->
        IF length(solution) \in DOMAIN sols.by_length
        THEN [sols.by_length EXCEPT ![length(solution)] = Append(@, solution)]
        ELSE (length(solution) :> <<solution>>) @@ sols.by_length,
     words_so_far_by_length |->
        IF length(solution) \in DOMAIN sols.words_so_far_by_length
        THEN [sols.words_so_far_by_length EXCEPT
                ![length(solution)] = @ \cup set(solution.words)]
        ELSE (length(solution) :> set(solution.words))
                @@ sols.words_so_far_by_length]

count(sols, for_length) ==
    IF for_length \notin DOMAIN sols.by_length
    THEN 0
    ELSE Len(sols.by_length[for_length])

words_so_far(sols, for_length) ==
    IF for_length \notin DOMAIN sols.words_so_far_by_length
    THEN {}
    ELSE sols.words_so_far_by_length[for_length]

(***************************************************************************)
(* find_solutions: the tests of one invocation                             *)
(***************************************************************************)
SaturatedOffByOne(n) == n > max_count

\* line 153
Saturated(n) == n >= max_count

FirstLetter(new_word) == new_word[1]

\* line 173: the recursive call starts from new_word[-1]
LastLetter(new_word) == new_word[Len(new_word)]

\* line 160
UpdatedCoverage(current_solution, new_word) ==
    current_solution.coverage \cup set(new_word)

\* line 161
NoNewLetter(current_solution, new_word) ==
    /\ only_increase_coverage
    /\ Cardinality(UpdatedCoverage(current_solution, new_word))
          <= coverage_length(current_solution)

\* line 163
Extended(current_solution, new_word) ==
    Solution(Append(current_solution.words, new_word),
             UpdatedCoverage(current_solution, new_word))

\* lines 165-166
AnyWordFound(sols, s) ==
    \E k \in 1..Len(s.words) : s.words[k] \in words_so_far(sols, length(s))

(***************************************************************************)
(* The call stack                                                          *)
(***************************************************************************)
Frame(current_solution, starting_letter) ==
    [current_solution |-> current_solution,
     starting_letter  |-> starting_letter,
     at               |-> "entry",
     i                |-> 0]

NoFrame == Frame(Solution(<<>>, {}), "")

Top == stack[Len(stack)]

Popped == SubSeq(stack, 1, Len(stack) - 1)

\* for side in sides: for letter in side (main, lines 186-187)
TopLetters(sds) == Concat(sds)

Running == pc = "main" /\ stack # <<>>

AtEntry == Running /\ Top.at = "entry"

TooLong == length(Top.current_solution) >= max_length

Enough == Saturated(count(solutions, length(Top.current_solution) + 1))

InLoop == Running /\ Top.at = "loop"

all_words == all_possible_words[Top.starting_letter]

HasNext == Top.i <= Len(all_words)

new_word == all_words[Top.i]

Step(op) == [op |-> op, frame |-> Top, depth |-> Len(stack)]

(***************************************************************************)
(* Initial state and actions                                               *)
(***************************************************************************)
Init ==
    /\ \E n \in 1..Len(Scenarios) :
          /\ sides = Scenarios[n].sides
          /\ dictionary \in Dictionaries(Scenarios[n])
    /\ all_letters = {}
    /\ all_possible_words = [x \in {} |-> <<>>]
    /\ solutions = NoSolutions
    /\ stack = <<>>
    /\ next_call = 1
    /\ pc = "start"
    /\ last = [op |-> "none", frame |-> NoFrame, depth |-> 0]

\* puzzle = Puzzle(dictionary, sides); solutions = Solutions()
BuildPuzzle ==
    /\ pc = "start"
    /\ all_letters' = PuzzleLetters(sides)
    /\ all_possible_words' = PossibleWords(dictionary, sides)
    /\ pc' = "main"
    /\ UNCHANGED <<sides, dictionary, solutions, stack, next_call, last>>

\* main: the next top-level call, from an empty solution
MainCall ==
    /\ pc = "main" /\ stack = <<>>
    /\ next_call <= Len(TopLetters(sides))
    /\ stack' = <<Frame(Solution(<<>>, {}), TopLetters(sides)[next_call])>>
    /\ next_call' = next_call + 1
    /\ last' = [op |-> "MainCall", frame |-> NoFrame, depth |-> 0]
    /\ UNCHANGED <<sides, dictionary, all_letters, all_possible_words, solutions, pc>>

\* main: every letter was searched from; the solutions are printed
MainDone ==
    /\ pc = "main" /\ stack = <<>>
    /\ next_call > Len(TopLetters(sides))
    /\ pc' = "done"
    /\ last' = [op |-> "MainDone", frame |-> NoFrame, depth |-> 0]
    /\ UNCHANGED <<sides, dictionary, all_letters, all_possible_words, solutions,
                   stack, next_call>>

\* lines 149-150
ReturnMaxLength ==
    /\ AtEntry /\ TooLong
    /\ stack' = Popped
    /\ last' = Step("ReturnMaxLength")
    /\ UNCHANGED <<sides, dictionary, all_letters, all_possible_words, solutions,
                   next_call, pc>>

\* lines 153-154
ReturnSaturated ==
    /\ AtEntry /\ ~TooLong /\ Enough
    /\ stack' = Popped
    /\ last' = Step("ReturnSaturated")
    /\ UNCHANGED <<sides, dictionary, all_letters, all_possible_words, solutions,
                   next_call, pc>>

\* line 157, starting_letter not a key: the KeyError is caught nowhere
RaiseKeyError ==
    /\ AtEntry /\ ~TooLong /\ ~Enough
    /\ Top.starting_letter \notin DOMAIN all_possible_words
    /\ pc' = "KeyError"
    /\ last' = Step("RaiseKeyError")
    /\ UNCHANGED <<sides, dictionary, all_letters, all_possible_words, solutions,
                   stack, next_call>>

\* line 157, starting_letter a key: the loop starts at the first word
EnterLoop ==
    /\ AtEntry /\ ~TooLong /\ ~Enough
    /\ Top.starting_letter \in DOMAIN all_possible_words
    /\ stack' = [stack EXCEPT ![Len(stack)].at = "loop", ![Len(stack)].i = 1]
    /\ last' = Step("EnterLoop")
    /\ UNCHANGED <<sides, dictionary, all_letters, all_possible_words, solutions,
                   next_call, pc>>

\* line 159: no word is left
LoopEnd ==
    /\ InLoop /\ ~HasNext
    /\ stack' = Popped
    /\ last' = Step("LoopEnd")
    /\ UNCHANGED <<sides, dictionary, all_letters, all_possible_words, solutions,
                   next_call, pc>>

CoverageSkip ==
    /\ InLoop /\ HasNext
    /\ NoNewLetter(Top.current_solution, new_word)
    /\ stack' = [stack EXCEPT ![Len(stack)].i = @ + 1]
    /\ last' = Step("CoverageReturn")
    /\ UNCHANGED <<sides, dictionary, all_letters, all_possible_words, solutions,
                   next_call, pc>>

\* lines 160-162
CoverageReturn ==
    /\ InLoop /\ HasNext
    /\ NoNewLetter(Top.current_solution, new_word)
    /\ stack' = Popped
    /\ last' = Step("CoverageReturn")
    /\ UNCHANGED <<sides, dictionary, all_letters, all_possible_words, solutions,
                   next_call, pc>>

\* lines 163-167
DedupContinue ==
    /\ InLoop /\ HasNext
    /\ ~NoNewLetter(Top.current_solution, new_word)
    /\ AnyWordFound(solutions, Extended(Top.current_solution, new_word))
    /\ stack' = [stack EXCEPT ![Len(stack)].i = @ + 1]
    /\ last' = Step("DedupContinue")
    /\ UNCHANGED <<sides, dictionary, all_letters, all_possible_words, solutions,
                   next_call, pc>>

InsertAndContinue ==
    LET s == Extended(Top.current_solution, new_word) IN
    /\ InLoop /\ HasNext
    /\ ~NoNewLetter(Top.current_solution, new_word)
    /\ ~AnyWordFound(solutions, s)
    /\ solves(s, all_letters)
    /\ solutions' = insert(solutions, s)
    /\ stack' = [stack EXCEPT ![Len(stack)].i = @ + 1]
    /\ last' = Step("InsertSolution")
    /\ UNCHANGED <<sides, dictionary, all_letters, all_possible_words, next_call, pc>>

\* lines 169-171
InsertSolution ==
    LET s == Extended(Top.current_solution, new_word) IN
    /\ InLoop /\ HasNext
    /\ ~NoNewLetter(Top.current_solution, new_word)
    /\ ~AnyWordFound(solutions, s)
    /\ solves(s, all_letters)
    /\ solutions' = insert(solutions, s)
    /\ stack' = Popped
    /\ last' = Step("InsertSolution")
    /\ UNCHANGED <<sides, dictionary, all_letters, all_possible_words, next_call, pc>>

\* line 173: the call; the caller resumes at the next word
Recurse ==
    LET s == Extended(Top.current_solution, new_word) IN
    /\ InLoop /\ HasNext
    /\ ~NoNewLetter(Top.current_solution, new_word)
    /\ ~AnyWordFound(solutions, s)
    /\ ~solves(s, all_letters)
    /\ stack' = Append([stack EXCEPT ![Len(stack)].i = @ + 1],
                       Frame(s, LastLetter(new_word)))
    /\ last' = Step("Recurse")
    /\ UNCHANGED <<sides, dictionary, all_letters, all_possible_words, solutions,
                   next_call, pc>>

Next ==
    \/ BuildPuzzle
    \/ MainCall
    \/ MainDone
    \/ ReturnMaxLength
    \/ ReturnSaturated
    \/ RaiseKeyError
    \/ EnterLoop
    \/ LoopEnd
    \/ CoverageReturn
    \/ DedupContinue
    \/ InsertSolution
    \/ Recurse

Spec == Init /\ [][Next]_vars

TypeOK ==
    /\ pc \in {"start", "main", "done", "KeyError"}
    /\ next_call \in 1..(Len(TopLetters(sides)) + 1)
    /\ Len(stack) <= max_length + 1

(***************************************************************************)
(* Properties                                                              *)
(***************************************************************************)
\* the solutions in the store, with the length they are stored under
Stored ==
    UNION {{<<n, k>> : k \in 1..Len(solutions.by_length[n])} :
              n \in DOMAIN solutions.by_length}

StoredSolution(p) == solutions.by_length[p[1]][p[2]]

WordsUnion(words) == UNION {set(words[k]) : k \in 1..Len(words)}

\* the words all_possible_words held for the invocation of the last step
LastCandidates == all_possible_words[last.frame.starting_letter]

\* C1: every solution in the store covers exactly the puzzle's letters, and
\* its coverage set is the union of the letters of its words.
C1_StoredCoverage ==
    \A p \in Stored :
        /\ StoredSolution(p).coverage = all_letters
        /\ StoredSolution(p).coverage = WordsUnion(StoredSolution(p).words)

C1_Witness ==
    \E p \in Stored :
        /\ Len(StoredSolution(p).words) >= 2
        /\ \A k \in 1..Len(StoredSolution(p).words) :
              set(StoredSolution(p).words[k]) # all_letters

\* C2: under no length does the store hold more than max_count solutions.
C2_CountBounded ==
    \A n \in DOMAIN solutions.by_length : Len(solutions.by_length[n]) <= max_count

\* an invocation below the top level returned on the saturation test, the
\* store holding max_count solutions that deeper calls inserted
C2_Witness ==
    /\ last.op = "ReturnSaturated"
    /\ last.depth >= 2
    /\ count(solutions, Len(last.frame.current_solution.words) + 1) = max_count

\* C3: two different solutions stored under one length share no word.
C3_DisjointWords ==
    \A p, q \in Stored :
        (p[1] = q[1] /\ p[2] # q[2]) =>
            set(StoredSolution(p).words) \cap set(StoredSolution(q).words) = {}

\* a candidate was passed over for a word already used, under a length that
\* by now holds two solutions
C3_Witness ==
    /\ last.op = "DedupContinue"
    /\ count(solutions, Len(last.frame.current_solution.words) + 1) >= 2

ChainLinked(words) ==
    \A k \in 1..(Len(words) - 1) : words[k][Len(words[k])] = words[k + 1][1]

\* C4: in every stored solution each word starts with the last letter of the
\* word before it, and a solution is stored only with a first word that
\* starts with the starting letter of the top-level call that is running.
C4_ChainValid ==
    /\ [](\A p \in Stored : ChainLinked(StoredSolution(p).words))
    /\ [][\A n \in DOMAIN solutions'.by_length :
            count(solutions', n) > count(solutions, n) =>
                LET s == solutions'.by_length[n][count(solutions', n)]
                IN  s.words[1][1] = stack[1].starting_letter]_vars

C4_Witness ==
    /\ last.op = "InsertSolution"
    /\ last.depth >= 2
    /\ \E p \in Stored :
          /\ Len(StoredSolution(p).words) >= 2
          /\ StoredSolution(p).words[1][1] # StoredSolution(p).words[2][1]

\* C5: the run never ends in an error state: a starting letter that has no
\* entry in all_possible_words gives no solution and the run goes on.
C5_NoErrorState == pc # "KeyError"

SideIndex(letter) == CHOOSE n \in 1..Len(sides) : letter \in set(sides[n])

\* the dictionary words that candidate discovery is to find from letter x
Reference(x) ==
    {w \in set(dictionary) :
        /\ \A k \in 1..Len(w) : w[k] # "-" /\ w[k] \in PuzzleLetters(sides)
        /\ Len(w) >= 3
        /\ w[1] = x
        /\ \A k \in 1..(Len(w) - 1) : SideIndex(w[k]) # SideIndex(w[k + 1])}

\* C6: for every letter with an entry, the words of all_possible_words are
\* exactly the dictionary words without '-', of puzzle letters only, that
\* start with the letter, have three letters or more and never take two
\* consecutive letters from one side.
C6_CandidatesExact ==
    \A x \in DOMAIN all_possible_words : set(all_possible_words[x]) = Reference(x)

\* a puzzle was built whose dictionary holds a word of puzzle letters that
\* breaks the side rule, next to an entry of two words or more
C6_Witness ==
    /\ pc # "start"
    /\ \E x \in DOMAIN all_possible_words : Len(all_possible_words[x]) >= 2
    /\ \E w \in set(dictionary) :
          /\ Len(w) >= 3
          /\ set(w) \subseteq all_letters
          /\ w \notin Reference(w[1])
          /\ w[1] \in DOMAIN all_possible_words

\* a step of the call on top of the stack
CallStep ==
    \/ ReturnMaxLength
    \/ ReturnSaturated
    \/ EnterLoop
    \/ LoopEnd
    \/ CoverageReturn
    \/ DedupContinue
    \/ InsertSolution
    \/ Recurse

\* C7: every top-level call returns: as long as a call is open it has a next
\* step to take towards its return, it is never stopped short of it.
C7_EveryCallReturns == stack # <<>> => ENABLED CallStep

\* C7, the part about depth: a call on a chain of max_length words extends
\* nothing, a callee's chain is one word longer than its caller's, no stored
\* solution has more than max_length words.
C7_DepthBounded ==
    /\ \A k \in 1..Len(stack) : Len(stack[k].current_solution.words) = k - 1
    /\ Len(stack) <= max_length + 1
    /\ \A p \in Stored : Len(StoredSolution(p).words) <= max_length

Sorted(words) ==
    \A j, k \in 1..Len(words) : j < k => Len(words[j]) >= Len(words[k])

\* C8: an invocation takes its candidates in the order of all_possible_words,
\* longest first, and the first candidate that adds no letter to the coverage
\* ends it: the invocation returns and the store is left as it was.
C8_AbandonOnNoGain ==
    /\ [](\A x \in DOMAIN all_possible_words : Sorted(all_possible_words[x]))
    /\ [][\A k \in 1..Len(stack) :
            k <= Len(stack') =>
                /\ stack'[k].i \in {stack[k].i, stack[k].i + 1}
                /\ stack'[k].current_solution = stack[k].current_solution]_vars
    /\ [][(/\ InLoop /\ HasNext
           /\ set(new_word) \subseteq Top.current_solution.coverage)
            => (stack' = Popped /\ solutions' = solutions)]_vars

\* an invocation returned at a candidate that added no letter although a
\* later candidate of its list would have added one
C8_Witness ==
    /\ last.op = "CoverageReturn"
    /\ \E j \in (last.frame.i + 1)..Len(LastCandidates) :
          ~(set(LastCandidates[j]) \subseteq last.frame.current_solution.coverage)

Completes == Top.current_solution.coverage \cup set(new_word) = all_letters

InsertsOwnSolution ==
    /\ stack' = Popped
    /\ solutions'.by_length[Len(Top.current_solution.words) + 1] =
          Append(IF Len(Top.current_solution.words) + 1 \in DOMAIN solutions.by_length
                 THEN solutions.by_length[Len(Top.current_solution.words) + 1]
                 ELSE <<>>,
                 [words    |-> Append(Top.current_solution.words, new_word),
                  coverage |-> all_letters])

\* C9 as stated: a candidate whose chain covers the alphabet is inserted and
\* ends the invocation at once.
C9_CompletingAlwaysInserted ==
    [][(InLoop /\ HasNext /\ Completes) => InsertsOwnSolution]_vars

ChainIsNew ==
    \A w \in set(Top.current_solution.words) \cup {new_word} :
        w \notin words_so_far(solutions, Len(Top.current_solution.words) + 1)

\* C9 amended: a candidate whose chain covers the alphabet and holds no word
\* already used by a stored solution of that length is inserted and ends the
\* invocation at once; the store changes in no other step, so an invocation
\* inserts at most one solution, one word longer than its chain.
C9_NewCompletingInserted ==
    /\ [][(InLoop /\ HasNext /\ Completes /\ ChainIsNew) => InsertsOwnSolution]_vars
    /\ [][solutions' # solutions =>
            (InLoop /\ HasNext /\ Completes /\ ChainIsNew /\ InsertsOwnSolution)]_vars

\* an invocation inserted a solution and returned with candidates left over
C9_Witness ==
    /\ last.op = "InsertSolution"
    /\ last.frame.i < Len(LastCandidates)
    /\ Len(stack) = last.depth - 1

AddsLetter(words) ==
    \A k \in 1..Len(words) :
        ~(set(words[k]) \subseteq WordsUnion(SubSeq(words, 1, k - 1)))

\* C10: in every chain, on the stack or in the store, each word has a letter
\* that no earlier word of the chain has; so no stored solution holds a word
\* twice or has more words than the puzzle has letters.
C10_EveryWordAdds ==
    /\ \A k \in 1..Len(stack) : AddsLetter(stack[k].current_solution.words)
    /\ \A p \in Stored :
          /\ AddsLetter(StoredSolution(p).words)
          /\ Cardinality(set(StoredSolution(p).words)) = Len(StoredSolution(p).words)
          /\ Len(StoredSolution(p).words) <= Cardinality(all_letters)

\* a stored chain of three words, found after a candidate that added nothing
\* ended an invocation
C10_Witness ==
    /\ \E p \in Stored : Len(StoredSolution(p).words) >= 3
    /\ last.op = "CoverageReturn"

====
